---- MODULE Spec2Model ----
(***************************************************************************)
(* The particle canvas of src/js/context/webgl (class Canvas, collected in *)
(* Sphere.ts lines 272-609): boot(), the ticker callback _update(), the    *)
(* per-vertex step _vertexUpdate() with its boundary wrap, the force       *)
(* helpers attraction() / repulsion(), the readiness gate (mobx when) and  *)
(* the stub _stop().                                                       *)
(*                                                                         *)
(* Numbers.  A JavaScript number is modelled as a tagged value: a finite   *)
(* fixed-point number (an integer count of 1/Scale units, rounded to       *)
(* nearest after every multiplication and division), +Infinity, -Infinity  *)
(* or NaN, with the IEEE-754 rules for the non-finite cases (x/0, 0/0,     *)
(* 0*Infinity, comparisons with NaN are false).  Negative zero is not      *)
(* distinguished from zero.                                                *)
(***************************************************************************)
EXTENDS Integers, Sequences, FiniteSets, TLC

\* Resolution of the fixed-point numbers: Scale units make 1.0.
Scale == 10 * 100

----------------------------------------------------------------------------
\* Evaluation

\* F applied to the value of x, which is evaluated once: the "const v = x"
\* of the source.  (A parameter or LET name of TLA+ stands for its
\* expression; a bound variable stands for a value.)
With(x, F(_)) == CHOOSE r \in {F(v) : v \in {x}} : TRUE

With2(x, y, F(_, _)) == CHOOSE r \in {F(v, w) : v \in {x}, w \in {y}} : TRUE

----------------------------------------------------------------------------
\* Integer helpers

Abs(n) == IF n < 0 THEN -n ELSE n

Sgn(n) == IF n > 0 THEN 1 ELSE IF n < 0 THEN -1 ELSE 0

Max2(a, b) == IF a >= b THEN a ELSE b

\* round(a * b / Scale), computed without leaving 32 bits: the operand of
\* larger magnitude is split into quotient and remainder by Scale.
MulRound(a, b) ==
  LET x == IF Abs(a) >= Abs(b) THEN a ELSE b
      y == IF Abs(a) >= Abs(b) THEN b ELSE a
      q == x \div Scale
      r == x % Scale
  IN  q * y + ((r * y + Scale \div 2) \div Scale)

\* round(a * Scale / b) for b # 0, computed without leaving 32 bits.
DivRound(a, b) ==
  LET B == Abs(b)
      A == a * Sgn(b)
      q == A \div B
      r == A % B
  IN  q * Scale + ((r * Scale + B \div 2) \div B)

RECURSIVE SqrtIter(_, _)
SqrtIter(n, x) ==
  With((x + n \div x) \div 2, LAMBDA y : IF y >= x THEN x ELSE SqrtIter(n, y))

\* floor(sqrt(n)) for n >= 0 (Newton's iteration from above)
ISqrt(m) == With(m, LAMBDA n : IF n <= 0 THEN 0 ELSE SqrtIter(n, n))

----------------------------------------------------------------------------
\* JavaScript numbers

Fin(n) == [k |-> "fin", v |-> n]

NaN == [k |-> "nan", v |-> 0]

Inf(s) == [k |-> "inf", v |-> s]

\* n whole units, e.g. Num(50) is 50.0
Num(n) == Fin(n * Scale)

\* n hundredths, e.g. Hundredths(41) is 0.41
Hundredths(n) == Fin((n * Scale) \div 100)

IsFinite(a) == a.k = "fin"

FSign(a) == IF a.k = "fin" THEN Sgn(a.v) ELSE a.v

\* -p
FNeg(p) ==
  With(p, LAMBDA a : IF a.k = "nan" THEN NaN ELSE [a EXCEPT !.v = -a.v])

\* p + q
FAdd(p, q) ==
  With2(p, q, LAMBDA a, b :
    IF a.k = "nan" \/ b.k = "nan" THEN NaN
    ELSE IF a.k = "inf" /\ b.k = "inf" THEN (IF a.v = b.v THEN a ELSE NaN)
    ELSE IF a.k = "inf" THEN a
    ELSE IF b.k = "inf" THEN b
    ELSE Fin(a.v + b.v))

\* p - q
FSub(p, q) == FAdd(p, FNeg(q))

\* p * q
FMul(p, q) ==
  With2(p, q, LAMBDA a, b :
    IF a.k = "nan" \/ b.k = "nan" THEN NaN
    ELSE IF a.k = "inf" \/ b.k = "inf"
         THEN (IF FSign(a) * FSign(b) = 0 THEN NaN ELSE Inf(FSign(a) * FSign(b)))
    ELSE Fin(MulRound(a.v, b.v)))

\* p / q
FDiv(p, q) ==
  With2(p, q, LAMBDA a, b :
    IF a.k = "nan" \/ b.k = "nan" THEN NaN
    ELSE IF a.k = "inf" THEN (IF b.k = "inf" THEN NaN
                              ELSE Inf(a.v * (IF FSign(b) < 0 THEN -1 ELSE 1)))
    ELSE IF b.k = "inf" THEN Fin(0)
    ELSE IF b.v = 0 THEN (IF a.v = 0 THEN NaN ELSE Inf(Sgn(a.v)))
    ELSE Fin(DivRound(a.v, b.v)))

\* p > q; false when either is NaN
FGt(p, q) ==
  With2(p, q, LAMBDA a, b :
    /\ a.k # "nan"
    /\ b.k # "nan"
    /\ IF a.k = "inf" THEN a.v = 1 /\ ~(b.k = "inf" /\ b.v = 1)
       ELSE IF b.k = "inf" THEN b.v = -1
       ELSE a.v > b.v)

\* p < q; false when either is NaN
FLt(p, q) == FGt(q, p)

\* p <= q; false when either is NaN
FLe(p, q) ==
  With2(p, q, LAMBDA a, b : a.k # "nan" /\ b.k # "nan" /\ ~FGt(a, b))

\* Math.cos and Math.sin on a finite argument, by Bhaskara's rational
\* approximation after reduction to the first quadrant (error below 0.002).
PiU == (31416 * Scale) \div 10000

CosQuadrant(y) ==
  LET y2 == (y * y) \div Scale
      p2 == (PiU * PiU) \div Scale
  IN  ((p2 - 4 * y2) * Scale) \div (p2 + y2)

CosU(x) ==
  LET r == x % (2 * PiU)
      s == IF r > PiU THEN 2 * PiU - r ELSE r
  IN  IF 2 * s <= PiU THEN CosQuadrant(s) ELSE -CosQuadrant(PiU - s)

FCos(p) == With(p, LAMBDA a : IF a.k = "fin" THEN Fin(CosU(a.v)) ELSE NaN)

FSin(p) ==
  With(p, LAMBDA a : IF a.k = "fin" THEN Fin(CosU(a.v - PiU \div 2)) ELSE NaN)

----------------------------------------------------------------------------
\* THREE.Vector3

Vec(x, y, z) == [x |-> x, y |-> y, z |-> z]

ZeroVec == Vec(Fin(0), Fin(0), Fin(0))

\* The divisor that keeps the squares of the components within 32 bits
LenShift(m) == IF m <= 26000 THEN 1 ELSE IF m <= 260000 THEN 10 ELSE 100

\* Vector3.length(): Math.sqrt(x*x + y*y + z*z)
FLen(p) ==
  With(p, LAMBDA d :
    IF d.x.k = "nan" \/ d.y.k = "nan" \/ d.z.k = "nan" THEN NaN
    ELSE IF d.x.k = "inf" \/ d.y.k = "inf" \/ d.z.k = "inf" THEN Inf(1)
    ELSE With(LenShift(Max2(Abs(d.x.v), Max2(Abs(d.y.v), Abs(d.z.v)))), LAMBDA sh :
           LET sx == Abs(d.x.v) \div sh
               sy == Abs(d.y.v) \div sh
               sz == Abs(d.z.v) \div sh
           IN  Fin(sh * ISqrt(sx * sx + sy * sy + sz * sz))))

\* Vector3.normalize(): divideScalar(length() || 1); 0 and NaN are falsy
FNormalize(p) ==
  With2(p, FLen(p), LAMBDA d, l :
    LET div == IF l.k = "nan" \/ (l.k = "fin" /\ l.v = 0) THEN Num(1) ELSE l
    IN  Vec(FDiv(d.x, div), FDiv(d.y, div), FDiv(d.z, div)))

----------------------------------------------------------------------------
\* Program constants

\* defaults.depth
depth == 0

\* defaults.speed.horizontal (1) and defaults.speed.vertical (1.5)
speedHorizontal == Num(1)

speedVertical == Hundredths(150)

\* vertex.friction = 0.01, vertex.mass = 1.0
friction == Hundredths(1)

mass == Num(1)

\* the damping / integration factor 0.41 of _vertexUpdate
Damping == Hundredths(41)

\* the phase toggles when _frameCount % (60 * 8) === 0
PhasePeriod == 60 * 8

\* Bounds of the model
\* number of particles (defaults.len is 10000; particles do not interact)
len == 1

\* number of _update calls explored in the branching specifications
MaxFrames == 2

\* number of window size changes explored
MaxResizes == 1

\* number of _update calls beyond two phase periods in the long run
ExtraFrames == 5

\* The viewports (window.innerWidth, window.innerHeight) the store can hold
Viewports == {<<0, 200>>, <<120, 80>>, <<300, 200>>}

\* The deltaTime values the ticker passes (1.0 is one frame at 60 fps)
DeltaTimes == {Num(1), Num(2)}

\* The seconds THREE.Clock.getDelta() can return once it runs:
\* 1/60 s, and 5 s (a tab that was in the background)
ClockDeltas == {Fin(Scale \div 60), Num(5)}

----------------------------------------------------------------------------
\* State

VARIABLES
  canvasLoaded,  \* _store.state.canvasLoaded
  whenPending,   \* the mobx when() of the constructor has not run its effect
  ticker,        \* _ticker: [started, listener]
  ww,            \* _store.windowWidth  (window.innerWidth)
  wh,            \* _store.windowHeight (window.innerHeight)
  booted,        \* boot() has run: renderer, scene, camera and geometry exist
  vertices,      \* _app.geometry.vertices
  tick,          \* _tick
  clockRunning,  \* _clock.running
  posOfForce,    \* _posOfForce
  forcePhase,    \* _forcePhase
  frameCount,    \* _frameCount
  history,       \* what the last operation was given and what it did
  twin,          \* a second run of the simulation, fed the same deltaTime
  call           \* a direct call of attraction() / repulsion(): its arguments

vars == <<canvasLoaded, whenPending, ticker, ww, wh, booted, vertices, tick,
          clockRunning, posOfForce, forcePhase, frameCount, history, twin, call>>

----------------------------------------------------------------------------
\* The force helpers

\* variant: the radius check dropped
closeEnoughAlways(length, radius) == TRUE

\* bAmCloseEnough of attraction() and repulsion()
closeEnough(length, radius) == ~(FGt(radius, Fin(0)) /\ FGt(length, radius))

\* diff = vertex - posOfForce
diffTo(vertex, forceX, forceY, forceZ) ==
  Vec(FSub(vertex.x, forceX), FSub(vertex.y, forceY), FSub(vertex.z, forceZ))

\* attraction(vertex, forceX, forceY, forceZ, radius, scale)
attraction(vertex, forceX, forceY, forceZ, radius, scale) ==
  With(diffTo(vertex, forceX, forceY, forceZ), LAMBDA diff :
  With(FLen(diff), LAMBDA length :
    IF closeEnough(length, radius)
    THEN With2(FSub(Num(1), FDiv(length, radius)), FNormalize(diff), LAMBDA pct, n :
         With(FSub(vertex.force.x, FMul(FMul(n.x, scale), pct)), LAMBDA fx :
         With(FSub(vertex.force.y, FMul(FMul(n.y, scale), pct)), LAMBDA fy :
         \* vertex.force.z = vertex.force.y - diff.y * scale * pct, where
         \* vertex.force.y has just been assigned
         With(FSub(fy, FMul(FMul(n.y, scale), pct)), LAMBDA fz :
           [vertex EXCEPT !.force = Vec(fx, fy, fz)]))))
    ELSE vertex))

\* repulsion(vertex, forceX, forceY, forceZ, radius, scale)
repulsion(vertex, forceX, forceY, forceZ, radius, scale) ==
  With(diffTo(vertex, forceX, forceY, forceZ), LAMBDA diff :
  With(FLen(diff), LAMBDA length :
    IF closeEnough(length, radius)
    THEN With2(FSub(Num(1), FDiv(length, radius)), FNormalize(diff), LAMBDA pct, n :
         With(FAdd(vertex.force.x, FMul(FMul(n.x, scale), pct)), LAMBDA fx :
         With(FAdd(vertex.force.y, FMul(FMul(n.y, scale), pct)), LAMBDA fy :
         With(FAdd(fy, FMul(FMul(n.y, scale), pct)), LAMBDA fz :
           [vertex EXCEPT !.force = Vec(fx, fy, fz)]))))
    ELSE vertex))

----------------------------------------------------------------------------
\* _vertexUpdate

\* vertex.force.set((force - velocity * friction) * 0.41 * deltaTime)
damp(vertex, deltaTime) ==
  LET d(f, v) == FMul(FMul(FSub(f, FMul(v, vertex.friction)), Damping), deltaTime)
  IN  [vertex EXCEPT !.force = Vec(d(vertex.force.x, vertex.velocity.x),
                                   d(vertex.force.y, vertex.velocity.y),
                                   d(vertex.force.z, vertex.velocity.z))]

\* the two contributions of the active phase
applyForces(vertex, pos, phase) ==
  LET half == Hundredths(50)
      mhalf == FNeg(Hundredths(50))
      scale == Hundredths(2)
  IN  IF phase = "attraction"
      THEN With(attraction(vertex, pos.x, pos.y, pos.z, Num(900), scale), LAMBDA v :
             repulsion(v, FMul(pos.x, half), FMul(pos.y, half), FMul(pos.z, half),
                       Num(200), scale))
      ELSE IF phase = "repulsion"
      THEN With(attraction(vertex, FMul(pos.x, mhalf), FMul(pos.y, mhalf),
                           FMul(pos.z, mhalf), Num(500), scale), LAMBDA v :
             repulsion(v, pos.x, pos.y, pos.z, Num(300), scale))
      ELSE vertex

\* velocity += force * 0.41 * deltaTime; position += velocity * deltaTime
integrate(vertex, deltaTime) ==
  With(Vec(FAdd(vertex.velocity.x, FMul(FMul(vertex.force.x, Damping), deltaTime)),
           FAdd(vertex.velocity.y, FMul(FMul(vertex.force.y, Damping), deltaTime)),
           FAdd(vertex.velocity.z, FMul(FMul(vertex.force.z, Damping), deltaTime))),
       LAMBDA velocity :
         [vertex EXCEPT !.velocity = velocity,
                        !.x = FAdd(vertex.x, FMul(velocity.x, deltaTime)),
                        !.y = FAdd(vertex.y, FMul(velocity.y, deltaTime)),
                        !.z = FAdd(vertex.z, FMul(velocity.z, deltaTime))])

\* one axis of the wrap: first "if (c > bound) c = -bound", later
\* "if (c < -bound) c = bound"
wrapAxis(c, bound) ==
  With(IF FGt(c, bound) THEN FNeg(bound) ELSE c, LAMBDA c1 :
    IF FLt(c1, FNeg(bound)) THEN bound ELSE c1)

\* variant: the commented-out bounce (clamp to the bound, reverse the velocity)
wrapBounce(vertex, w, h) ==
  [vertex EXCEPT !.x = IF FGt(vertex.x, Num(w)) THEN Num(w)
                       ELSE IF FLt(vertex.x, Num(-w)) THEN Num(-w) ELSE vertex.x,
                 !.y = IF FGt(vertex.y, Num(h)) THEN Num(h)
                       ELSE IF FLt(vertex.y, Num(-h)) THEN Num(-h) ELSE vertex.y,
                 !.z = wrapAxis(vertex.z, Num(depth)),
                 !.velocity = Vec(IF FGt(vertex.x, Num(w)) \/ FLt(vertex.x, Num(-w))
                                  THEN FNeg(vertex.velocity.x) ELSE vertex.velocity.x,
                                  IF FGt(vertex.y, Num(h)) \/ FLt(vertex.y, Num(-h))
                                  THEN FNeg(vertex.velocity.y) ELSE vertex.velocity.y,
                                  vertex.velocity.z)]

\* variant: only the three checks against the positive bounds
wrapPositiveOnly(vertex, w, h) ==
  [vertex EXCEPT !.x = IF FGt(vertex.x, Num(w)) THEN Num(-w) ELSE vertex.x,
                 !.y = IF FGt(vertex.y, Num(h)) THEN Num(-h) ELSE vertex.y,
                 !.z = IF FGt(vertex.z, Num(depth)) THEN Num(-depth) ELSE vertex.z]

\* the boundary wrap at the end of _vertexUpdate, against this.ww, this.wh
\* and defaults.depth
wrap(vertex, w, h) ==
  [vertex EXCEPT !.x = wrapAxis(vertex.x, Num(w)),
                 !.y = wrapAxis(vertex.y, Num(h)),
                 !.z = wrapAxis(vertex.z, Num(depth))]

\* the vertex as integrated, before the wrap
integrated(vertex, pos, deltaTime, phase) ==
  With(damp(vertex, deltaTime), LAMBDA damped :
  With(applyForces(damped, pos, phase), LAMBDA forced :
    integrate(forced, deltaTime)))

vertexUpdate(vertex, pos, deltaTime, phase, w, h) ==
  With(integrated(vertex, pos, deltaTime, phase), LAMBDA moved : wrap(moved, w, h))

----------------------------------------------------------------------------
\* _update

\* const delta = this._clock.getDelta(): the first call starts the clock
\* (autoStart) and returns 0, later calls return the seconds since the last
getDelta(running, elapsed) == IF running THEN elapsed ELSE Fin(0)

\* this._tick += delta * 0.1 * deltaTime (_tick starts as null, which adds as 0)
nextTick(t, delta, deltaTime) ==
  FAdd(t, FMul(FMul(delta, Hundredths(10)), deltaTime))

\* this._posOfForce.set(...): the two regimes of the centre of force
center(t, deltaTime, w, h) ==
  With2(FCos(FMul(t, speedHorizontal)), FSin(FMul(t, speedVertical)), LAMBDA c, s :
    IF FLt(t, Num(1))
    THEN Vec(FMul(FMul(c, Num(50)), deltaTime),
             FMul(FMul(s, Num(50)), deltaTime),
             Fin(0))
    ELSE Vec(FMul(FMul(FMul(c, Num(w)), FNeg(Hundredths(50))), deltaTime),
             FMul(FMul(FMul(s, Num(h)), Hundredths(50)), deltaTime),
             Fin(0)))

\* variant: the count tested after the increment
nextPhaseOffByOne(phase, count) ==
  IF (count + 1) % PhasePeriod = 0
  THEN (IF phase = "attraction" THEN "repulsion" ELSE "attraction")
  ELSE phase

\* if (this._frameCount % (60 * 8) === 0) toggle this._forcePhase
nextPhase(phase, count) ==
  IF count % PhasePeriod = 0
  THEN (IF phase = "attraction" THEN "repulsion"
        ELSE IF phase = "repulsion" THEN "attraction" ELSE phase)
  ELSE phase

\* The simulation state one _update call leaves, from the state s =
\* [tick, clockRunning, posOfForce, vertices, forcePhase, frameCount] it finds
simStep(s, deltaTime, elapsed, w, h) ==
  With(nextTick(s.tick, getDelta(s.clockRunning, elapsed), deltaTime), LAMBDA t :
  With(center(t, deltaTime, w, h), LAMBDA pos :
    [tick |-> t,
     clockRunning |-> TRUE,
     posOfForce |-> pos,
     vertices |-> [i \in DOMAIN s.vertices |->
                     vertexUpdate(s.vertices[i], pos, deltaTime, s.forcePhase, w, h)],
     forcePhase |-> nextPhase(s.forcePhase, s.frameCount),
     frameCount |-> s.frameCount + 1]))

sim == [tick |-> tick, clockRunning |-> clockRunning, posOfForce |-> posOfForce,
        vertices |-> vertices, forcePhase |-> forcePhase, frameCount |-> frameCount]

----------------------------------------------------------------------------
\* Construction and boot

\* variant: a predicate that does not read canvasLoaded
whenAlways(loaded) == TRUE

\* the predicate of when(): () => this._store.state.canvasLoaded
whenPredicate(loaded) == loaded

\* a vertex as boot() builds it
newVertex(x, y, z) ==
  [x |-> x, y |-> y, z |-> z, velocity |-> ZeroVec, force |-> ZeroVec,
   friction |-> friction, mass |-> mass]

\* The vertices boot() can build for a w x h window: sample points of
\* x = randFloat(-w, w), y = randFloat(-h, h), z = randFloat(-depth, depth)
bootVertices(w, h) ==
  {newVertex(Num(-w), Fin((h * Scale) \div 2), Num(depth)),
   newVertex(Fin((3 * w * Scale) \div 4), Num(-h), Num(depth))}

NoTwin == [tick |-> Fin(0), clockRunning |-> FALSE, posOfForce |-> ZeroVec,
           vertices |-> <<>>, forcePhase |-> "attraction", frameCount |-> 1]

NoCall == [fn |-> "none", before |-> newVertex(Fin(0), Fin(0), Fin(0)),
           center |-> ZeroVec, radius |-> Fin(0), scale |-> Fin(0)]

\* The state the constructor leaves: when() evaluates its predicate at once
Init ==
  /\ canvasLoaded = FALSE
  /\ whenPending = ~whenPredicate(FALSE)
  /\ ticker = [started |-> whenPredicate(FALSE), listener |-> FALSE]
  /\ \E v \in Viewports : ww = v[1] /\ wh = v[2]
  /\ booted = FALSE
  /\ vertices = <<>>
  /\ tick = Fin(0)
  /\ clockRunning = FALSE
  /\ posOfForce = ZeroVec
  /\ forcePhase = "attraction"
  /\ frameCount = 1
  /\ history = [op |-> "new", w |-> 0, h |-> 0, deltaTime |-> Fin(0),
                integrated |-> <<>>, tickBefore |-> Fin(0), stopCalled |-> FALSE,
                starts |-> IF whenPredicate(FALSE) THEN 1 ELSE 0,
                resizes |-> 0, bootW |-> 0, bootH |-> 0]
  /\ twin = NoTwin
  /\ call = NoCall

\* boot(), called once by the application: registers _update with the ticker
\* (new Ticker has autoStart off, so add() does not start it), builds the
\* vertices from the window size (window.innerWidth and innerHeight, which
\* the store mirrors as ww and wh) without validating it, and sets
\* canvasLoaded, upon which the pending when() runs its effect once:
\* this._ticker.start()
bootCore(vs) ==
  /\ ~booted
  /\ booted' = TRUE
  /\ vertices' = vs
  /\ canvasLoaded' = TRUE
  /\ LET fires == whenPending /\ whenPredicate(TRUE)
     IN  /\ whenPending' = (whenPending /\ ~fires)
         /\ ticker' = [started |-> ticker.started \/ fires, listener |-> TRUE]
         /\ history' = [history EXCEPT !.op = "boot", !.bootW = ww, !.bootH = wh,
                                       !.starts = IF fires THEN @ + 1 ELSE @]
  /\ UNCHANGED <<ww, wh, tick, clockRunning, posOfForce, forcePhase, frameCount, call>>

boot ==
  \E vs \in [1..len -> bootVertices(ww, wh)] :
    bootCore(vs) /\ UNCHANGED twin

\* The store's window size changes; the reaction of the constructor only
\* resizes the camera and the renderer
resize ==
  \E v \in Viewports :
    /\ history.resizes < MaxResizes
    /\ v # <<ww, wh>>
    /\ ww' = v[1]
    /\ wh' = v[2]
    /\ history' = [history EXCEPT !.op = "resize", !.resizes = @ + 1]
    /\ UNCHANGED <<canvasLoaded, whenPending, ticker, booted, vertices, tick,
                   clockRunning, posOfForce, forcePhase, frameCount, twin, call>>

\* The ticker, once started, calls its listener _update(deltaTime)
updateCore(deltaTime, elapsed) ==
  /\ ticker.started
  /\ ticker.listener
  /\ \E r \in {simStep(sim, deltaTime, elapsed, ww, wh)} :
         /\ tick' = r.tick
         /\ clockRunning' = r.clockRunning
         /\ posOfForce' = r.posOfForce
         /\ vertices' = r.vertices
         /\ forcePhase' = r.forcePhase
         /\ frameCount' = r.frameCount
         /\ history' = [history EXCEPT
                          !.op = "update", !.w = ww, !.h = wh,
                          !.deltaTime = deltaTime, !.tickBefore = tick,
                          !.integrated = [i \in DOMAIN vertices |->
                              integrated(vertices[i], r.posOfForce, deltaTime, forcePhase)]]
  /\ UNCHANGED <<canvasLoaded, whenPending, ticker, ww, wh, booted, call>>

update ==
  /\ frameCount <= MaxFrames
  /\ \E deltaTime \in DeltaTimes :
       \E elapsed \in (IF clockRunning THEN ClockDeltas ELSE {Fin(0)}) :
         updateCore(deltaTime, elapsed) /\ UNCHANGED twin

\* _stop() {}: the body is empty
stop ==
  /\ ticker.started
  /\ ~history.stopCalled
  /\ history' = [history EXCEPT !.op = "stop", !.stopCalled = TRUE]
  /\ UNCHANGED <<canvasLoaded, whenPending, ticker, ww, wh, booted, vertices, tick,
                 clockRunning, posOfForce, forcePhase, frameCount, twin, call>>

Next == boot \/ resize \/ update \/ stop

Spec == Init /\ [][Next]_vars

----------------------------------------------------------------------------
\* The long run: one window, one frame per tick at 60 fps, through two
\* phase periods

steady ==
  /\ frameCount <= 2 * PhasePeriod + ExtraFrames
  /\ updateCore(Num(1), Fin(Scale \div 60))
  /\ UNCHANGED twin

NextPhase == boot \/ steady

SpecPhase == Init /\ [][NextPhase]_vars

----------------------------------------------------------------------------
\* Two runs from the same boot, fed the same deltaTime, each with its own
\* THREE.Clock

twinBoot ==
  \E vs \in [1..len -> bootVertices(ww, wh)] :
    /\ bootCore(vs)
    /\ twin' = [NoTwin EXCEPT !.vertices = vs]

twinUpdate ==
  /\ frameCount <= MaxFrames
  /\ \E deltaTime \in DeltaTimes :
       \E elapsed \in (IF clockRunning THEN ClockDeltas ELSE {Fin(0)}) :
         \E elapsedTwin \in (IF twin.clockRunning THEN ClockDeltas ELSE {Fin(0)}) :
           /\ updateCore(deltaTime, elapsed)
           /\ twin' = simStep(twin, deltaTime, elapsedTwin, ww, wh)

NextTwin == twinBoot \/ twinUpdate

SpecTwin == Init /\ [][NextTwin]_vars

----------------------------------------------------------------------------
\* attraction() and repulsion() called directly on one vertex

\* The arguments and vertices tried (whole and fractional numbers)
ForceCoords == {Num(0), Num(3)}

ForceRadii == {Num(0), Num(2), Num(10)}

ForceScales == {Hundredths(2), Hundredths(50)}

ForceCenters == {ZeroVec, Vec(Num(1), Num(-1), Num(0))}

ForceForces == {ZeroVec, Vec(Hundredths(1), Hundredths(-2), Hundredths(3))}

InitForce ==
  /\ canvasLoaded = FALSE
  /\ whenPending = TRUE
  /\ ticker = [started |-> FALSE, listener |-> FALSE]
  /\ ww = 0
  /\ wh = 0
  /\ booted = FALSE
  /\ \E x \in ForceCoords, y \in ForceCoords, z \in ForceCoords, f \in ForceForces :
       vertices = <<[newVertex(x, y, z) EXCEPT !.force = f,
                        !.velocity = Vec(Hundredths(5), Fin(0), Hundredths(-5))]>>
  /\ tick = Fin(0)
  /\ clockRunning = FALSE
  /\ posOfForce = ZeroVec
  /\ forcePhase = "attraction"
  /\ frameCount = 1
  /\ history = [op |-> "new", w |-> 0, h |-> 0, deltaTime |-> Fin(0),
                integrated |-> <<>>, tickBefore |-> Fin(0), stopCalled |-> FALSE,
                starts |-> 0, resizes |-> 0, bootW |-> 0, bootH |-> 0]
  /\ twin = NoTwin
  /\ \E c \in ForceCenters, r \in ForceRadii, s \in ForceScales :
       call = [NoCall EXCEPT !.center = c, !.radius = r, !.scale = s]

callAttraction ==
  /\ call.fn = "none"
  /\ call' = [call EXCEPT !.fn = "attraction", !.before = vertices[1]]
  /\ vertices' = <<attraction(vertices[1], call.center.x, call.center.y,
                              call.center.z, call.radius, call.scale)>>
  /\ UNCHANGED <<canvasLoaded, whenPending, ticker, ww, wh, booted, tick, clockRunning,
                 posOfForce, forcePhase, frameCount, history, twin>>

callRepulsion ==
  /\ call.fn = "none"
  /\ call' = [call EXCEPT !.fn = "repulsion", !.before = vertices[1]]
  /\ vertices' = <<repulsion(vertices[1], call.center.x, call.center.y,
                             call.center.z, call.radius, call.scale)>>
  /\ UNCHANGED <<canvasLoaded, whenPending, ticker, ww, wh, booted, tick, clockRunning,
                 posOfForce, forcePhase, frameCount, history, twin>>

NextForce == callAttraction \/ callRepulsion

SpecForce == InitForce /\ [][NextForce]_vars

----------------------------------------------------------------------------
\* Properties

\* the number of _update calls made so far (_frameCount starts at 1)
calls == frameCount - 1

\* C1: from a fresh simulator the phase is attraction through the first 479
\* calls of _update, repulsion after the 480th and through the 959th, and
\* attraction again after the 960th: it changes at multiples of 480 calls
\* and at no other call.
C1_PhaseSchedule ==
  forcePhase = IF (calls \div PhasePeriod) % 2 = 0 THEN "attraction" ELSE "repulsion"

\* C1 witness: 960 calls made, 480 of them in the repulsion phase
C1_Witness == calls = 2 * PhasePeriod /\ forcePhase = "attraction"

\* within [-bound, bound]
within(c, bound) == FLe(FNeg(bound), c) /\ FLe(c, bound)

C3_ReadinessGate ==
  /\ ticker.started => canvasLoaded
  /\ calls > 0 => canvasLoaded
  /\ history.starts = IF canvasLoaded THEN 1 ELSE 0

\* C3 witness: _update has run, after the signal and its single start()
C3_Witness == calls > 0 /\ canvasLoaded /\ history.starts = 1 /\ ~whenPending

\* C4 as stated: once stop has been called on the running ticker, no further
\* _update is made and the particles stay as they are.
C4_StopHalts ==
  [][history.stopCalled => (frameCount' = frameCount /\ vertices' = vertices)]_vars

\* C5 as stated: boot with a non-positive window width or height fails and
\* leaves nothing to tick: no vertices, canvasLoaded not set, ticker idle.
C5_InvalidConfigurationRejected ==
  (booted /\ (history.bootW <= 0 \/ history.bootH <= 0)) =>
    (vertices = <<>> /\ ~canvasLoaded /\ ~ticker.started)

\* C6 as stated: two runs from the same boot and viewport, fed the same
\* deltaTime values, agree on _tick, the centre of force and the particles
\* after every tick, and each _update advances _tick by deltaTime * 0.1.
C6_Determinism ==
  twin.frameCount = frameCount =>
    /\ tick = twin.tick
    /\ posOfForce = twin.posOfForce
    /\ vertices = twin.vertices
    /\ history.op = "update" =>
         tick = FAdd(history.tickBefore, FMul(history.deltaTime, Hundredths(10)))

\* the squared distance between a vertex and a centre, in squared units
distSq(vertex, c) ==
  (vertex.x.v - c.x.v) * (vertex.x.v - c.x.v)
  + (vertex.y.v - c.y.v) * (vertex.y.v - c.y.v)
  + (vertex.z.v - c.z.v) * (vertex.z.v - c.z.v)

\* C7: attraction() or repulsion() with radius > 0 on a particle farther
\* from the centre than radius leaves its force, velocity and position (the
\* whole vertex) unchanged.
C7_OutsideRadiusNoOp ==
  (/\ call.fn # "none"
   /\ call.radius.v > 0
   /\ distSq(call.before, call.center) > call.radius.v * call.radius.v)
  => vertices[1] = call.before

\* C7 witness: repulsion() was called on a particle outside the radius that
\* carries a force
C7_Witness ==
  /\ call.fn = "repulsion"
  /\ call.radius.v > 0
  /\ distSq(call.before, call.center) > call.radius.v * call.radius.v
  /\ call.before.force # ZeroVec

isFiniteVec(v) == IsFinite(v.x) /\ IsFinite(v.y) /\ IsFinite(v.z)

\* C8 as stated: a force helper called with radius 0 skips the contribution:
\* the force is left unchanged and stays finite.
C8_ZeroRadiusSkipped ==
  (call.fn # "none" /\ call.radius = Fin(0)) =>
    (vertices[1].force = call.before.force /\ isFiniteVec(vertices[1].force))

\* C9 as stated: within the radius, each component k of the force becomes
\* old force_k - dhat_k * scale * pct under attraction() and
\* old force_k + dhat_k * scale * pct under repulsion().
C9_ForceFormula ==
  (/\ call.fn # "none"
   /\ call.radius.v > 0
   /\ distSq(call.before, call.center) <= call.radius.v * call.radius.v)
  => LET d == diffTo(call.before, call.center.x, call.center.y, call.center.z)
         pct == FSub(Num(1), FDiv(FLen(d), call.radius))
         dhat == FNormalize(d)
         term(c) == FMul(FMul(c, call.scale), pct)
         old == call.before.force
     IN  vertices[1].force =
           IF call.fn = "attraction"
           THEN Vec(FSub(old.x, term(dhat.x)), FSub(old.y, term(dhat.y)),
                    FSub(old.z, term(dhat.z)))
           ELSE Vec(FAdd(old.x, term(dhat.x)), FAdd(old.y, term(dhat.y)),
                    FAdd(old.z, term(dhat.z)))

\* what the wrap makes of one integrated coordinate
wrapped(c, bound) ==
  IF FGt(c, bound) THEN FNeg(bound) ELSE IF FLt(c, FNeg(bound)) THEN bound ELSE c

\* C10: in _update, per axis, a coordinate integrated beyond the positive
\* bound becomes exactly the negative bound, one below the negative bound
\* becomes exactly the positive bound, any other stays as integrated; the
\* velocity and the force are as integrated.
C10_WrapExact ==
  history.op = "update" =>
    \A i \in DOMAIN vertices :
      /\ vertices[i].x = wrapped(history.integrated[i].x, Num(history.w))
      /\ vertices[i].y = wrapped(history.integrated[i].y, Num(history.h))
      /\ vertices[i].z = wrapped(history.integrated[i].z, Num(depth))
      /\ vertices[i].velocity = history.integrated[i].velocity
      /\ vertices[i].force = history.integrated[i].force

\* C10 witness: a moving particle was integrated beyond the positive x bound
\* and teleported
C10_Witness ==
  /\ history.op = "update"
  /\ \E i \in DOMAIN vertices :
       /\ FGt(history.integrated[i].x, Num(history.w))
       /\ history.w > 0
       /\ vertices[i].x = Num(-history.w)
       /\ vertices[i].velocity.x # Fin(0)

====
